---- MODULE Spec2Model ----
(***************************************************************************)
(* Transrangers (include/transrangers.hpp): push-based rangers.            *)
(*                                                                         *)
(* A ranger is a record holding the captures of the closure the source     *)
(* builds; invoking it with a sink is the operator Invoke.  The sinks the  *)
(* combinators pass down (the lambdas capturing by reference) are frames   *)
(* of a stack: a frame holds the captured state the lambda mutates while   *)
(* the wrapped ranger runs, and the combinator reads it back when the      *)
(* wrapped ranger returns.  The bottom of the stack is the caller's sink.  *)
(***************************************************************************)
EXTENDS Integers, Sequences, FiniteSets, TLC

\* ---------------------------------------------------------------- bounds
MaxLen == 2        \* longest source sequence
MaxN == 2          \* largest take quota
MaxCalls == 2      \* top-level invocations of one pipeline
MaxRefuse == 3     \* the sink may refuse any of its first MaxRefuse calls
MaxSrc == 4        \* longest source of the pipelines over longer sources

\* ------------------------------------------------------- cursors, values
\* cursor{} of unique's capture (line 155): a default-constructed cursor
NoCursor == [src |-> <<>>, pos |-> 0, elem |-> 0, fs |-> <<>>]

\* no pending sub-ranger: std::optional<subranger>{} (line 184)
NoRanger == [kind |-> "nullopt"]

\* begin(rng)+i-1 of the sequence held by an all ranger (lines 40-44)
Cursor(r, i) == [src |-> r.id, pos |-> i, elem |-> r.rng[i], fs |-> <<>>]

\* all(rng) at construction: first=begin(rng), last=end(rng) (line 44)
All(id, S) == [kind |-> "all", id |-> id, rng |-> S, first |-> 1, last |-> Len(S) + 1]

\* user-supplied callables: the predicate of filter, the function of transform
Pred(pred, x) ==
  CASE pred = "odd" -> x % 2 = 1
    [] pred = "lo"  -> x = 1
    [] OTHER        -> TRUE

\* F applied to the element a cursor c refers to; "allA" is ranger_join's
\* all_adaptor (lines 199-201): a fresh all over the container
ApplyF(f, x, c) ==
  CASE f = "succ" -> x + 1
    [] f = "one"  -> 1
    [] f = "allA" -> All(c.src \o <<c.pos>>, x)
    [] OTHER      -> x

RECURSIVE ApplyFs(_, _, _)
ApplyFs(fs, x, c) ==
  IF fs = <<>> THEN x ELSE ApplyFs(Tail(fs), ApplyF(Head(fs), x, c), c)

\* operator* of a cursor: the element for a source cursor, (*pf)(*p) for a
\* deref_fun cursor (lines 85, 101)
Deref(c) == ApplyFs(c.fs, c.elem, c)

\* cursor{p,&f} (line 112)
DerefFun(p, f) == [p EXCEPT !.fs = <<f>> \o p.fs]

\* ------------------------------------------------------------ the stack
Push(ctx, fr) == [ctx EXCEPT !.stk = Append(ctx.stk, fr)]
Top(ctx) == ctx.stk[Len(ctx.stk)]
Pop(ctx) == [ctx EXCEPT !.stk = SubSeq(ctx.stk, 1, Len(ctx.stk) - 1)]

\* an entry of the log: t says what happened, c is the cursor it happened
\* to, i a number and ok a flag whose meaning depends on t
Ev(ctx, t, c, i, ok) ==
  [ctx EXCEPT !.log = Append(ctx.log, [t |-> t, c |-> c, ok |-> ok, i |-> i])]

\* deref_fun::operator*, line 98: return (*pf)(*p) applies the function of
\* this cursor once, to what the cursor beneath it yields; n is the number
\* of deref_fun layers of c still to be evaluated
RECURSIVE Applied(_, _, _)
Applied(ctx, c, n) ==
  IF n = 0 THEN ctx ELSE Applied(Ev(ctx, "apply", c, n, TRUE), c, n - 1)

\* *c was evaluated (by a combinator, or by the caller's sink)
DerefEv(ctx, c) == Applied(Ev(ctx, "deref", c, 0, TRUE), c, Len(c.fs))

\* the caller's sink: refuses exactly the calls of this invocation whose
\* number is in ctx.refuse, throws on call number ctx.throwAt, records every
\* cursor it is handed and, if ctx.look, dereferences it
SinkCall(ctx, c) ==
  LET k == ctx.calls + 1
      ok == k \notin ctx.refuse
      got == Ev([ctx EXCEPT !.calls = k], "dst", c, 0, ok)
  IN IF k = ctx.throwAt
     THEN [ctx |-> Ev([ctx EXCEPT !.calls = k], "throw", c, 0, FALSE),
           v |-> FALSE, elem |-> c.elem, exc |-> TRUE]
     ELSE [ctx |-> IF ctx.look THEN DerefEv(got, c) ELSE got,
           v |-> ok, elem |-> c.elem, exc |-> FALSE]

\* an entry of the log for a stage of concat being invoked / having returned
StageEv(ctx, t, i, ret) ==
  [ctx EXCEPT !.log = Append(ctx.log, [t |-> t, c |-> NoCursor, ok |-> ret, i |-> i])]

\* an all that goes on whatever the sink answers
AllNeverStops(v) == FALSE

\* all, line 46: if(!dst(it++))
AllRefused(v) == ~v

\* an all that stores the position of the element refused
AllStopStay(it) == it

\* ---------------------------------------------------- the pieces of code
\* all, line 46: the position stored when the sink refuses cursor it (it++
\* has already advanced it)
AllStopAt(it) == it + 1

\* a filter whose rejected elements stop the wrapped ranger
FilterRejectStops == FALSE

\* filter, line 77: the verdict for an element the predicate rejects
FilterReject == TRUE

\* a transform that evaluates f when it hands the cursor over
TransformEager(ctx, c) == Ev(ctx, "apply", c, 1, TRUE)

\* transform, line 112: handing cursor{p,&f} to dst evaluates nothing
TransformDeliver(ctx, c) == ctx

\* a take that drives the wrapped ranger whatever the quota
TakeEntryAlways(n) == TRUE

\* take, line 122: if(n)
TakeEntry(n) == n # 0

\* a take whose sink does not stop the wrapped ranger when the quota is used up
TakeSinkNoStop(v, n) == v

\* take, line 124: dst(p)&&(n!=0), n already decremented
TakeSink(v, n) == v /\ (n # 0)

\* a take that returns what the wrapped ranger returned
TakeRetPlain(ret, n) == ret

\* take, line 125: rgr(...)||(n==0)
TakeRet(ret, n) == ret \/ (n = 0)

\* a concat that marks a stage exhausted whatever it returned
ConcatContAlways(ret) == TRUE

\* concat, line 143: the value cont=rgr(dst) leaves in cont
ConcatCont(ret) == ret

\* unique, line 162: what the priming sink answers the wrapped ranger
PrimeVerdict == FALSE

\* a join that empties the slot when the pending sub-ranger completes
JoinReset(pend, ret) == IF ret THEN NoRanger ELSE pend

\* join, lines 185-187: (*osrgr)(dst) runs the pending sub-ranger where it
\* is, and nothing else touches the slot
JoinKeep(pend, ret) == pend

\* join, line 190: if(!cont)osrgr.emplace(*p), where again is *p evaluated
\* once more
JoinPending(cont, osrgr, again) == IF cont THEN osrgr ELSE again

\* unique, line 167: *p==*q
UniqueEq(p, q) == Deref(p) = Deref(q)

\* number of stages of a concat ranger (the length of the next chain)
RECURSIVE Stages(_)
Stages(r) == IF r.kind = "concat" THEN 1 + Stages(r.next) ELSE 0

RECURSIVE Invoke(_, _), Deliver(_, _), AllLoop(_, _, _)

\* dst(c) for the sink on top of the stack: [ctx, v, elem, exc] where v is
\* the verdict, elem the element c refers to after the call (a sink may
\* invoke the sub-ranger *p in place) and exc says that the call threw; what
\* a frame's lambda assigned before the throw stays assigned
Deliver(ctx, c) ==
  IF ctx.stk = <<>> THEN SinkCall(ctx, c)
  ELSE
    LET fr == Top(ctx)
        below == Pop(ctx)
    IN CASE fr.k = "filter" ->      \* lines 76-78
              LET j == below.preds + 1
                  b1 == DerefEv([below EXCEPT !.preds = j], c)
              IN IF j = below.predThrowAt      \* pred(*p) throws
                 THEN [ctx |-> Push(Ev(b1, "throw", c, 0, FALSE), fr),
                       v |-> FALSE, elem |-> c.elem, exc |-> TRUE]
                 ELSE IF Pred(fr.pred, Deref(c))
                 THEN LET d == Deliver(b1, c)
                      IN [ctx |-> Push(d.ctx, fr), v |-> d.v, elem |-> d.elem, exc |-> d.exc]
                 ELSE [ctx |-> Push(b1, fr), v |-> FilterReject, elem |-> c.elem,
                       exc |-> FALSE]
         [] fr.k = "transform" ->   \* line 112
              LET d == Deliver(TransformDeliver(below, DerefFun(c, fr.f)), DerefFun(c, fr.f))
              IN [ctx |-> Push(d.ctx, fr), v |-> d.v, elem |-> c.elem, exc |-> d.exc]
         [] fr.k = "take" ->        \* lines 122-125
              LET n1 == fr.n - 1
                  d == Deliver(below, c)
              IN [ctx |-> Push(d.ctx, [fr EXCEPT !.n = n1]),
                  v |-> TakeSink(d.v, n1), elem |-> d.elem, exc |-> d.exc]
         [] fr.k = "prime" ->       \* unique, lines 159-163
              LET d == Deliver(Ev(below, "prime", c, 0, TRUE), c)
              IN [ctx |-> Push(d.ctx, [fr EXCEPT !.p = c,
                                                 !.cont = IF d.exc THEN fr.cont ELSE d.v]),
                  v |-> PrimeVerdict, elem |-> d.elem, exc |-> d.exc]
         [] fr.k = "unique" ->      \* lines 166-172
              LET b1 == DerefEv(DerefEv(below, fr.p), c)
              IN IF UniqueEq(fr.p, c)
                 THEN [ctx |-> Push(b1, [fr EXCEPT !.p = c]), v |-> TRUE, elem |-> c.elem,
                       exc |-> FALSE]
                 ELSE LET d == Deliver(b1, c)
                      IN [ctx |-> Push(d.ctx, [fr EXCEPT !.p = c]), v |-> d.v,
                          elem |-> d.elem, exc |-> d.exc]
         [] fr.k = "join" ->        \* lines 188-192
              LET res == Invoke(Deref(c), DerefEv(below, c))   \* (*p)(dst)
                  \* *p of a source cursor is the stored sub-ranger itself;
                  \* *p of a deref_fun cursor is a temporary
                  elem2 == IF c.fs = <<>> THEN res.r ELSE c.elem
                  again == Deref([c EXCEPT !.elem = elem2])  \* *p, once more
              IN IF res.exc
                 THEN [ctx |-> Push(res.ctx, fr), v |-> FALSE, elem |-> elem2, exc |-> TRUE]
                 ELSE IF res.ret
                 THEN [ctx |-> Push(res.ctx, fr), v |-> TRUE, elem |-> elem2, exc |-> FALSE]
                 ELSE [ctx |-> Push(Ev(DerefEv(res.ctx, c), "emplace", c, 0, TRUE),
                                    [fr EXCEPT !.osrgr = JoinPending(res.ret, fr.osrgr, again)]),
                       v |-> FALSE, elem |-> elem2, exc |-> FALSE]

\* all, lines 45-48: the loop from local position it; first is assigned
\* only where the code assigns it, so not when dst throws
AllLoop(r, it, ctx) ==
  IF it = r.last
  THEN [r |-> [r EXCEPT !.first = it], ctx |-> ctx, ret |-> TRUE, exc |-> FALSE]
  ELSE LET d == Deliver(ctx, Cursor(r, it))
           r2 == [r EXCEPT !.rng[it] = d.elem]
       IN IF d.exc
          THEN [r |-> r2, ctx |-> d.ctx, ret |-> FALSE, exc |-> TRUE]
          ELSE IF AllRefused(d.v)
          THEN [r |-> [r2 EXCEPT !.first = AllStopAt(it)], ctx |-> d.ctx, ret |-> FALSE,
                exc |-> FALSE]
          ELSE AllLoop(r2, it + 1, d.ctx)

\* rgr(dst): [r, ctx, ret, exc], the ranger after the call, the sinks after
\* the call, the value returned, and whether the call threw instead of
\* returning (ret is then FALSE and means nothing)
Invoke(r, ctx) ==
  CASE r.kind = "all" -> AllLoop(r, r.first, ctx)
    [] r.kind = "allcopy" ->    \* all_copy::operator(), line 58
         LET res == Invoke(r.rgr, ctx)
         IN [r |-> [r EXCEPT !.rgr = res.r], ctx |-> res.ctx, ret |-> res.ret,
             exc |-> res.exc]
    [] r.kind = "filter" ->     \* lines 75-79
         LET res == Invoke(r.rgr, Push(ctx, [k |-> "filter", pred |-> r.pred]))
         IN [r |-> [r EXCEPT !.rgr = res.r], ctx |-> Pop(res.ctx), ret |-> res.ret,
             exc |-> res.exc]
    [] r.kind = "transform" ->  \* lines 111-113
         LET res == Invoke(r.rgr, Push(ctx, [k |-> "transform", f |-> r.f]))
         IN [r |-> [r EXCEPT !.rgr = res.r], ctx |-> Pop(res.ctx), ret |-> res.ret,
             exc |-> res.exc]
    [] r.kind = "take" ->       \* lines 121-127
         IF TakeEntry(r.n)
         THEN LET res == Invoke(r.rgr, Push(ctx, [k |-> "take", n |-> r.n]))
                  n2 == Top(res.ctx).n
              IN [r |-> [r EXCEPT !.rgr = res.r, !.n = n2], ctx |-> Pop(res.ctx),
                  ret |-> ~res.exc /\ TakeRet(res.ret, n2), exc |-> res.exc]
         ELSE [r |-> r, ctx |-> ctx, ret |-> TRUE, exc |-> FALSE]
    [] r.kind = "concat0" ->    \* line 132
         [r |-> r, ctx |-> ctx, ret |-> TRUE, exc |-> FALSE]
    [] r.kind = "concat" ->     \* lines 141-146
         LET i == Stages(r)
             res == Invoke(r.rgr, StageEv(ctx, "call", i, TRUE))
             thrown == ~r.cont /\ res.exc
             r1 == IF r.cont THEN r
                   ELSE IF res.exc THEN [r EXCEPT !.rgr = res.r]
                   ELSE [r EXCEPT !.rgr = res.r, !.cont = ConcatCont(res.ret)]
             ctx1 == IF r.cont THEN ctx
                     ELSE IF res.exc THEN res.ctx
                     ELSE StageEv(res.ctx, "ret", i, res.ret)
         IN IF thrown \/ ~r1.cont
            THEN [r |-> r1, ctx |-> ctx1, ret |-> FALSE, exc |-> thrown]
            ELSE LET nx == Invoke(r1.next, ctx1)
                 IN [r |-> [r1 EXCEPT !.next = nx.r], ctx |-> nx.ctx, ret |-> nx.ret,
                     exc |-> nx.exc]
    [] r.kind = "unique" ->     \* lines 155-173
         LET pr == Invoke(r.rgr, Push(ctx, [k |-> "prime", p |-> r.p, cont |-> FALSE]))
             r1 == IF r.start
                   THEN [r EXCEPT !.start = FALSE, !.rgr = pr.r, !.p = Top(pr.ctx).p]
                   ELSE r
             ctx1 == IF r.start THEN Pop(pr.ctx) ELSE ctx
         IN IF r.start /\ pr.exc THEN [r |-> r1, ctx |-> ctx1, ret |-> FALSE, exc |-> TRUE]
            ELSE IF r.start /\ pr.ret THEN [r |-> r1, ctx |-> ctx1, ret |-> TRUE, exc |-> FALSE]
            ELSE IF r.start /\ ~Top(pr.ctx).cont
            THEN [r |-> r1, ctx |-> ctx1, ret |-> FALSE, exc |-> FALSE]
            ELSE LET res == Invoke(r1.rgr, Push(ctx1, [k |-> "unique", p |-> r1.p]))
                 IN [r |-> [r1 EXCEPT !.rgr = res.r, !.p = Top(res.ctx).p],
                     ctx |-> Pop(res.ctx), ret |-> res.ret, exc |-> res.exc]
    [] r.kind = "join" ->       \* lines 184-193
         LET pend == Invoke(r.osrgr, Ev(ctx, "pcall", NoCursor, 0, TRUE))
             has == r.osrgr # NoRanger
             r1 == IF has THEN [r EXCEPT !.osrgr = JoinKeep(pend.r, pend.ret)] ELSE r
             ctx1 == IF ~has THEN ctx
                     ELSE IF pend.exc THEN pend.ctx
                     ELSE Ev(pend.ctx, "pret", NoCursor, 0, pend.ret)
         IN IF has /\ (pend.exc \/ ~pend.ret)
            THEN [r |-> r1, ctx |-> ctx1, ret |-> FALSE, exc |-> pend.exc]
            ELSE LET res == Invoke(r1.rgr, Push(ctx1, [k |-> "join", osrgr |-> r1.osrgr]))
                 IN [r |-> [r1 EXCEPT !.rgr = res.r, !.osrgr = Top(res.ctx).osrgr],
                     ctx |-> Pop(res.ctx), ret |-> res.ret, exc |-> res.exc]

\* ------------------------------------------------------- construction
Filter(pred, rgr) == [kind |-> "filter", pred |-> pred, rgr |-> rgr]
Transform(f, rgr) == [kind |-> "transform", f |-> f, rgr |-> rgr]
Take(n, rgr) == [kind |-> "take", n |-> n, rgr |-> rgr]
Concat0 == [kind |-> "concat0"]
Concat(rgr, next) == [kind |-> "concat", cont |-> FALSE, rgr |-> rgr, next |-> next]
Unique(rgr) == [kind |-> "unique", start |-> TRUE, p |-> NoCursor, rgr |-> rgr]
Join(rgr) == [kind |-> "join", osrgr |-> NoRanger, rgr |-> rgr]
RangerJoin(rgr) == Join(Transform("allA", rgr))

\* the sinks at the start of a top-level invocation: the caller's sink
\* refuses the calls in refuse, dereferences what it gets if look, throws on
\* call throwAt (0: never); the predicate throws on its predThrowAt-th
\* evaluation (0: never)
CtxOf(refuse, look, throwAt, predThrowAt) ==
  [stk |-> <<>>, log |-> <<>>, calls |-> 0, preds |-> 0, refuse |-> refuse,
   look |-> look, throwAt |-> throwAt, predThrowAt |-> predThrowAt]

\* a sink that reads what it is handed and never throws
Ctx0(refuse) == CtxOf(refuse, TRUE, 0, 0)

\* ------------------------------------------- the eager computation
\* What the composed operation yields when computed directly on the
\* sequences: the reference the pipelines are compared with.
RECURSIVE Collapse(_)
Collapse(s) ==
  IF Len(s) <= 1 THEN s
  ELSE IF s[1] = s[2] THEN Collapse(Tail(s))
  ELSE <<s[1]>> \o Collapse(Tail(s))

Prefix(s, n) == SubSeq(s, 1, IF n < Len(s) THEN n ELSE Len(s))

RECURSIVE Eager(_), EagerFlat(_)
Eager(r) ==
  CASE r.kind = "all" -> r.rng
    [] r.kind = "filter" ->
         LET s == Eager(r.rgr) Keep(x) == Pred(r.pred, x) IN SelectSeq(s, Keep)
    [] r.kind = "transform" ->
         LET s == Eager(r.rgr) IN [i \in 1..Len(s) |-> ApplyF(r.f, s[i], NoCursor)]
    [] r.kind = "take" -> Prefix(Eager(r.rgr), r.n)
    [] r.kind = "concat0" -> <<>>
    [] r.kind = "concat" -> Eager(r.rgr) \o Eager(r.next)
    [] r.kind = "unique" -> Collapse(Eager(r.rgr))
    [] r.kind = "join" -> EagerFlat(Eager(r.rgr))
EagerFlat(subs) ==
  IF subs = <<>> THEN <<>> ELSE Eager(Head(subs)) \o EagerFlat(Tail(subs))

\* ------------------------------------------------------ the pipelines
Elems == {1, 2}
Seqs == UNION {[1..n -> Elems] : n \in 0..MaxLen}
Quotas == 0..MaxN

\* a stage of a concat, or a sub-ranger of a join: a source or a take of it
Stage(id) == {All(id, S) : S \in Seqs} \cup {Take(n, All(id, S)) : n \in 1..MaxN, S \in Seqs}

\* pipelines over one source
Linear ==
  LET A == {All(<<1>>, S) : S \in Seqs}
  IN A \cup {Filter("odd", a) : a \in A}
       \cup {Transform(f, a) : f \in {"succ", "one"}, a \in A}
       \cup {Take(n, a) : n \in Quotas, a \in A}
       \cup {Unique(a) : a \in A}
       \cup {Unique(Transform("one", a)) : a \in A}
       \cup {Filter("odd", Take(n, a)) : n \in Quotas, a \in A}
       \cup {Take(n, Filter("odd", a)) : n \in Quotas, a \in A}
       \cup {Unique(Take(n, a)) : n \in Quotas, a \in A}
       \cup {Take(n, Unique(a)) : n \in Quotas, a \in A}

\* concat of two or three stages, bare or wrapped
Concats ==
  LET C2 == {Concat(a, Concat(b, Concat0)) : a \in Stage(<<1>>), b \in Stage(<<2>>)}
      C3 == {Concat(All(<<1>>, S), Concat(All(<<2>>, <<>>), Concat(All(<<3>>, T), Concat0))) :
               S \in Seqs, T \in Seqs}
      C == C2 \cup C3
  IN C \cup {Unique(c) : c \in C2} \cup {Take(n, c) : n \in 1..MaxN, c \in C2}

\* join over a sequence of containers (ranger_join) or of sub-rangers
Joins ==
  LET CC == {<<S, T>> : S \in Seqs, T \in Seqs} \cup {<<S, <<>>, T>> : S \in Seqs, T \in Seqs}
      RJ == {RangerJoin(All(<<1>>, cc)) : cc \in CC}
      V == {<<a, b>> : a \in Stage(<<2>>), b \in Stage(<<3>>)}
      J == {Join(All(<<1>>, v)) : v \in V}
      JT == {Join(Take(1, All(<<1>>, v))) : v \in V}
  IN RJ \cup J \cup JT \cup {Unique(j) : j \in RJ \cup J}

Pipelines == Linear \cup Concats \cup Joins

\* -------------------------------------------------------------- state
VARIABLES
  rgr,    \* the pipeline: the outermost ranger with everything it captured
  rgr0,   \* the pipeline as constructed
  hist    \* one record per top-level invocation so far: what the sink was
          \* handed and answered, the stages concat invoked, the flag returned
vars == <<rgr, rgr0, hist>>

InitIn(P) == rgr \in P /\ rgr0 = rgr /\ hist = <<>>

Init == InitIn(Pipelines)

\* rgr(dst) at top level, with a sink that refuses the calls in refuse
Call(refuse) ==
  /\ Len(hist) < MaxCalls
  /\ LET res == Invoke(rgr, Ctx0(refuse))
     IN /\ rgr' = res.r
        /\ hist' = Append(hist, [log |-> res.ctx.log, ret |-> res.ret, exc |-> FALSE])
  /\ UNCHANGED rgr0

Next == \E refuse \in SUBSET (1..MaxRefuse) : Call(refuse)

Spec == Init /\ [][Next]_vars

\* ------------------------------------------------ reading the history
IsDst(e) == e.t = "dst"
Dst(log) == SelectSeq(log, IsDst)
\* the values the sink saw, in order
DstVals(log) == LET d == Dst(log) IN [i \in 1..Len(d) |-> Deref(d[i].c)]
Accepted(log) == \A i \in 1..Len(log) : IsDst(log[i]) => log[i].ok
\* the calls of the sink that it refused
Refused(log) == LET d == Dst(log) IN {i \in 1..Len(d) : ~d[i].ok}

RECURSIVE Logs(_)
Logs(h) == IF h = <<>> THEN <<>> ELSE Head(h).log \o Logs(Tail(h))
AllLog == Logs(hist)

\* what a ranger delivers when driven to completion by an accepting sink
FullOutput(r) == DstVals(Invoke(r, Ctx0({})).ctx.log)

\* C1: a pipeline driven by a sink that always returns true delivers
\* exactly the elements, in order, of the eager computation of the same
\* composed operation.
C1_EagerEquality ==
  (Len(hist) = 1 /\ Accepted(hist[1].log)) => DstVals(hist[1].log) = Eager(rgr0)

\* C2: if the sink of the first invocation returns false on the k-th
\* element and the sink of the second accepts everything, the second
\* invocation delivers exactly positions k+1..end of the full output.
C2_Resumption ==
  (/\ Len(hist) = 2
   /\ Cardinality(Refused(hist[1].log)) = 1
   /\ Accepted(hist[2].log))
  => LET k == CHOOSE i \in Refused(hist[1].log) : TRUE
         full == FullOutput(rgr0)
     IN DstVals(hist[2].log) = SubSeq(full, k + 1, Len(full))

\* C3: an invocation returns true only if no sink call of that invocation
\* returned false (and so returns false whenever one did).
C3_CompletionFlag ==
  \A i \in 1..Len(hist) : hist[i].ret => Accepted(hist[i].log)

\* C4: once the terminal sink has returned false in an invocation, no
\* further cursor is delivered to it before that invocation returns.
C4_NoDeliveryAfterStop ==
  \A i \in 1..Len(hist) :
    LET d == Dst(hist[i].log) IN \A j \in 1..Len(d) : ~d[j].ok => j = Len(d)

\* C5: take(n, R) forwards at most n cursors over its lifetime; the
\* remaining quota is n minus that number and never negative.
C5_TakeQuota ==
  rgr0.kind = "take" =>
    /\ Len(Dst(AllLog)) <= rgr0.n
    /\ rgr.n = rgr0.n - Len(Dst(AllLog))
    /\ rgr.n >= 0

\* ------------------------------------------------ the smaller families
\* take at the top of the pipeline, or wrapped once by filter or unique
Takes ==
  {p \in Pipelines :
     \/ p.kind = "take"
     \/ p.kind \in {"filter", "unique"} /\ p.rgr.kind = "take"}
TakeOf(r) == IF r.kind = "take" THEN r ELSE r.rgr
SpecTake == InitIn(Takes) /\ [][Next]_vars

\* pipelines holding a concat
SpecConcat == InitIn(Concats) /\ [][Next]_vars

Last(s) == s[Len(s)]
IsPrefix(s, t) == Len(s) <= Len(t) /\ s = SubSeq(t, 1, Len(s))

\* C6: take(n, all(S)), n >= 1, driven by an accepting sink: if |S| = n it
\* delivers all n elements and returns true; if |S| > n it delivers exactly
\* the first n, returns true, and the source's position is then n (the
\* element after the n-th was handed to no sink).
C6_TakeBoundary ==
  (/\ rgr0.kind = "take" /\ rgr0.rgr.kind = "all" /\ rgr0.n >= 1
   /\ Len(hist) = 1 /\ Accepted(hist[1].log))
  => LET S == rgr0.rgr.rng
         n == rgr0.n
     IN /\ Len(S) = n => DstVals(hist[1].log) = S /\ hist[1].ret
        /\ Len(S) > n => /\ DstVals(hist[1].log) = SubSeq(S, 1, n)
                         /\ hist[1].ret
                         /\ rgr.rgr.first = n + 1

C6_Witness ==
  /\ rgr0.kind = "take" /\ rgr0.rgr.kind = "all" /\ rgr0.n >= 1
  /\ Len(rgr0.rgr.rng) > rgr0.n
  /\ Len(hist) = 1 /\ Accepted(hist[1].log) /\ Len(Dst(hist[1].log)) = rgr0.n
  /\ hist[1].ret

\* C7: a take invoked with remaining quota 0 returns true, hands the sink
\* nothing and leaves the wrapped ranger (and its own quota) as it was;
\* the take is the outermost ranger or the one filter or unique wraps.
C7_TakeZero ==
  [][(TakeOf(rgr).n = 0 /\ hist' # hist)
       => (TakeOf(rgr') = TakeOf(rgr) /\ Last(hist').ret /\ Last(hist').log = <<>>)]_vars

\* a take whose quota was used up by an earlier invocation, over a wrapped
\* ranger that still has elements, has been invoked again
C7_Witness ==
  /\ rgr0.kind \in {"take", "unique"} /\ TakeOf(rgr0).n > 0 /\ TakeOf(rgr).n = 0
  /\ Len(hist) = 2 /\ Dst(hist[1].log) # <<>> /\ hist[2].log = <<>> /\ hist[2].ret
  /\ TakeOf(rgr0).rgr.kind = "all" /\ TakeOf(rgr).rgr.first < TakeOf(rgr).rgr.last

\* C8: what unique(R) delivers over all invocations is R's elements with
\* every run of equal adjacent values collapsed to its first: no two
\* consecutive deliveries are equal, and over an empty R every invocation
\* returns true and delivers nothing.
C8_UniqueCollapse ==
  rgr0.kind = "unique" =>
    LET full == FullOutput(rgr0.rgr)
        got == DstVals(AllLog)
    IN /\ \A i \in 1..(Len(got) - 1) : got[i] # got[i + 1]
       /\ IsPrefix(got, Collapse(full))
       /\ (hist # <<>> /\ Last(hist).ret) => got = Collapse(full)
       /\ full = <<>> => \A i \in 1..Len(hist) : hist[i].ret /\ Dst(hist[i].log) = <<>>

\* C10: once an invocation has returned true, every later invocation
\* returns true and delivers nothing.
C10_DoneStaysDone ==
  \A i \in 1..Len(hist) : \A j \in 1..Len(hist) :
    (i < j /\ hist[i].ret) => (hist[j].ret /\ Dst(hist[j].log) = <<>>)

\* the concat of a pipeline of Concats, which may be wrapped once
TheConcat(r) == IF r.kind = "concat" THEN r ELSE r.rgr

RECURSIVE NoneExhausted(_), ExhaustedIsPrefix(_)
NoneExhausted(c) == c.kind = "concat" => (~c.cont /\ NoneExhausted(c.next))
ExhaustedIsPrefix(c) ==
  c.kind = "concat" =>
    IF c.cont THEN ExhaustedIsPrefix(c.next) ELSE NoneExhausted(c.next)

\* C9: in concat(R1, ..., Rm), whatever the sink answers: a stage is
\* invoked only after the stage before it has returned true; after a stage
\* returned false, the next stage invoked is that same stage; a stage that
\* returned true is never invoked again; the elements reach the sink in
\* stage order; the stages marked exhausted are a prefix of the stages.
\* (The log numbers a stage by the count of stages from it to the last.)
C9_ConcatOrder ==
  LET L == AllLog
      m == Stages(TheConcat(rgr0))
      d == Dst(L)
  IN /\ \A b \in 1..Len(L) :
          (L[b].t = "call" /\ L[b].i < m) =>
             \E a \in 1..(b - 1) : L[a].t = "ret" /\ L[a].i = L[b].i + 1 /\ L[a].ok
     /\ \A a \in 1..Len(L) : \A b \in 1..Len(L) :
          (/\ a < b /\ L[a].t = "ret" /\ ~L[a].ok /\ L[b].t = "call"
           /\ \A x \in (a + 1)..(b - 1) : L[x].t # "call") => L[b].i = L[a].i
     /\ \A a \in 1..Len(L) : \A b \in 1..Len(L) :
          (a < b /\ L[a].t = "ret" /\ L[a].ok /\ L[b].t = "call") => L[b].i # L[a].i
     /\ \A a \in 1..Len(d) : \A b \in 1..Len(d) :
          a < b => d[a].c.src[1] <= d[b].c.src[1]
     /\ ExhaustedIsPrefix(TheConcat(rgr))

\* a three-stage concat was stopped in its first stage and resumed to the end
C9_Witness ==
  /\ rgr0.kind = "concat" /\ Stages(rgr0) = 3
  /\ Len(hist) = 2 /\ ~hist[1].ret /\ hist[2].ret
  /\ Dst(hist[1].log) # <<>> /\ Last(Dst(hist[1].log)).c.src = <<1>>
  /\ Dst(hist[2].log) # <<>> /\ Last(Dst(hist[2].log)).c.src = <<3>>
  /\ Dst(hist[2].log)[1].c.src = <<1>>


\* ------------------------------------------------- the owning adaptor
\* all(Range&&), lines 52-68: an all_copy object holds the sequence rng and
\* the ranger rgr=all(rng) over it. inst names the storage of this object's
\* rng; the positions of rgr name the storage they point into through the
\* id of the all it holds.
AllCopy(inst, S) == [kind |-> "allcopy", inst |-> inst, rng |-> S, rgr |-> All(<<inst>>, S)]

\* the implicitly defined copy constructor of all_copy, lines 52-62: rng is
\* copied into the storage of the new object, rgr is copied member by
\* member, positions unchanged
CopyOf(r, inst) == [r EXCEPT !.inst = inst]

\* the all_copy of a pipeline of the owning family
OwningOf(r) == IF r.kind = "allcopy" THEN r ELSE r.rgr

\* the positions of the all_copy point into storage that is no longer there
Dangling(r) == OwningOf(r).rgr.id # <<OwningOf(r).inst>>

\* what the positions of the all_copy read: its own rng, or whatever mem the
\* released storage holds by now
Reading(r, mem) ==
  LET o == OwningOf(r)
      o2 == [o EXCEPT !.rgr.rng = IF Dangling(r) THEN mem ELSE o.rng]
  IN IF r.kind = "allcopy" THEN o2 ELSE [r EXCEPT !.rgr = o2]

Owning == {AllCopy(1, S) : S \in Seqs}

\* filter(pred, rgr) on an all_copy, lines 70-80: rgr is the by-value
\* parameter, the lambda captures a copy of it ([=]), and the parameter is
\* destroyed when filter returns
WrapFilter ==
  /\ rgr.kind = "allcopy"
  /\ hist = <<>>
  /\ rgr' = Filter("odd", CopyOf(rgr, rgr.inst + 1))
  /\ rgr0' = rgr'
  /\ UNCHANGED hist

\* rgr(dst) at top level on a pipeline of the owning family; reading through
\* positions into released storage is undefined: the values read are any
\* mem (a trap ends the run and adds no state)
CallOwn(refuse, mem) ==
  /\ Len(hist) < MaxCalls
  /\ Len(mem) = Len(OwningOf(rgr).rng)
  /\ LET res == Invoke(Reading(rgr, mem), Ctx0(refuse))
     IN /\ rgr' = res.r
        /\ hist' = Append(hist, [log |-> res.ctx.log, ret |-> res.ret, exc |-> FALSE])
  /\ UNCHANGED rgr0

NextOwn ==
  \/ WrapFilter
  \/ \E refuse \in SUBSET (1..MaxRefuse), mem \in Seqs : CallOwn(refuse, mem)

SpecOwn == InitIn(Owning) /\ [][NextOwn]_vars

\* C11: in every instance of a ranger over an owned sequence, the copies
\* captured by a combinator included, the stored positions point into the
\* sequence held by that same instance, and every cursor delivered refers to
\* that sequence.
C11_OwnedPositions ==
  /\ ~Dangling(rgr)
  /\ \A i \in 1..Len(AllLog) :
       IsDst(AllLog[i]) => AllLog[i].c.src = <<OwningOf(rgr).inst>>


\* ------------------------------------------ pipelines over longer sources
LongSeqs == UNION {[1..n -> Elems] : n \in 0..MaxSrc}
Sources == {All(<<1>>, S) : S \in LongSeqs}

\* a source, bare or under filter, take, take over filter or filter over
\* take
Lazies ==
  Sources \cup {Filter("odd", a) : a \in Sources}
          \cup {Take(n, a) : n \in 0..MaxSrc, a \in Sources}
          \cup {Take(n, Filter("odd", a)) : n \in 0..MaxSrc, a \in Sources}
          \cup {Filter("odd", Take(n, a)) : n \in 0..MaxSrc, a \in Sources}

SpecLazy == InitIn(Lazies) /\ [][Next]_vars

\* the source at the bottom of a pipeline over one source
RECURSIVE SourceOf(_)
SourceOf(r) == IF r.kind = "all" THEN r ELSE SourceOf(r.rgr)

\* how many elements of its source a pipeline has consumed
Consumed(r) == SourceOf(r).first - 1

\* the positions of the source that were dereferenced, by anyone
Dereferenced(log) == {log[i].c.pos : i \in {j \in 1..Len(log) : log[j].t = "deref"}}
\* the positions of the source that were handed to anyone
Requested(log) == {log[i].c.pos : i \in {j \in 1..Len(log) : log[j].t \in {"deref", "dst"}}}

\* the index in S of the k-th element satisfying pred (0 if there is none)
IndexOfKth(pred, S, k) ==
  LET Hits(i) == {j \in 1..i : Pred(pred, S[j])}
      at == {i \in 1..Len(S) : Pred(pred, S[i]) /\ Cardinality(Hits(i)) = k}
  IN IF at = {} THEN 0 ELSE CHOOSE i \in at : TRUE

\* filter over take over a source, invoked once, the sink having accepted
\* the first element it got and refused the second
SecondRefused ==
  /\ rgr0.kind = "filter" /\ rgr0.rgr.kind = "take"
  /\ Len(hist) = 1
  /\ Len(Dst(hist[1].log)) = 2
  /\ Refused(hist[1].log) = {2}

\* C12: when filter(pred, take(n, all(S))) is invoked and the sink returns
\* false on the second element it receives, the source has consumed and
\* dereferenced exactly the elements up to the second one of S satisfying
\* pred, which is among the first n, and nothing after it was requested.
C12_Laziness ==
  SecondRefused =>
    LET S == SourceOf(rgr0).rng
        k == IndexOfKth(rgr0.pred, S, 2)
    IN /\ k >= 2 /\ k <= rgr0.rgr.n
       /\ Consumed(rgr) = k
       /\ Dereferenced(hist[1].log) = 1..k
       /\ Requested(hist[1].log) = 1..k

\* the second match comes after a rejected element and before the end
C12_Witness ==
  /\ SecondRefused
  /\ IndexOfKth(rgr0.pred, SourceOf(rgr0).rng, 2) = 3
  /\ Len(SourceOf(rgr0).rng) = 4


\* ------------------------------------------------ callables that throw
\* rgr(dst) at top level where the sink throws on its k-th call: the
\* exception leaves through every combinator and reaches the caller
SinkThrows(refuse, k) ==
  /\ Len(hist) < MaxCalls
  /\ LET res == Invoke(rgr, CtxOf(refuse, TRUE, k, 0))
     IN /\ res.exc
        /\ rgr' = res.r
        /\ hist' = Append(hist, [log |-> res.ctx.log, ret |-> FALSE, exc |-> TRUE])
  /\ UNCHANGED rgr0

\* rgr(dst) at top level where the predicate of filter throws on its j-th
\* evaluation
PredThrows(refuse, j) ==
  /\ Len(hist) < MaxCalls
  /\ LET res == Invoke(rgr, CtxOf(refuse, TRUE, 0, j))
     IN /\ res.exc
        /\ rgr' = res.r
        /\ hist' = Append(hist, [log |-> res.ctx.log, ret |-> FALSE, exc |-> TRUE])
  /\ UNCHANGED rgr0

NextThrow ==
  \/ \E refuse \in SUBSET (1..MaxRefuse) : Call(refuse)
  \/ \E refuse \in SUBSET (1..MaxRefuse), k \in 1..MaxRefuse : SinkThrows(refuse, k)
  \/ \E refuse \in SUBSET (1..MaxRefuse), j \in 1..MaxRefuse : PredThrows(refuse, j)

SpecThrow == InitIn(Linear) /\ [][NextThrow]_vars

\* some invocation so far ended in an exception
Thrown == \E i \in 1..Len(hist) : hist[i].exc

\* the element at which the last invocation failed
FailedAt == LET L == Last(hist).log IN Last(L).c

\* C13: when a user callable throws during an invocation, the state kept by
\* the combinators is that of an early stop at the failing element: the
\* source's stored position is past every element delivered before the
\* failure and not past the failing one, and over the invocations no
\* element of the source is delivered to the sink twice.
C13_ThrowIsEarlyStop ==
  LET d == Dst(AllLog)
  IN /\ (hist # <<>> /\ Last(hist).exc) =>
          /\ \A a \in 1..Len(d) : d[a].c.pos < SourceOf(rgr).first
          /\ SourceOf(rgr).first <= FailedAt.pos + 1
     /\ Thrown => \A a, b \in 1..Len(d) : a < b => d[a].c.pos # d[b].c.pos


\* --------------------------------------------------------------- join
SpecJoin == InitIn(Joins) /\ [][Next]_vars

\* the element a cursor of the flattened sequence refers to
ElemId(c) == <<c.src, c.pos>>

\* C14: when the sink of a join returns false on an element of a
\* sub-sequence, the sub-ranger kept as pending is in the state reached
\* after delivering that element, so the following invocation goes on with
\* the element after it and no element is ever delivered again.
C14_PendingResumes ==
  rgr0.kind = "join" =>
    LET d == Dst(AllLog)
    IN /\ (hist # <<>> /\ ~Last(hist).ret /\ d # <<>>) =>
            /\ rgr.osrgr # NoRanger
            /\ SourceOf(rgr.osrgr).id = Last(d).c.src
            /\ SourceOf(rgr.osrgr).first = Last(d).c.pos + 1
       /\ \A a, b \in 1..Len(d) : a < b => ElemId(d[a].c) # ElemId(d[b].c)


\* ---------------------------------------------------------------- all
\* C15: all(S) delivers the remaining elements in order; it returns true
\* exactly when the sink refused nothing, and then the stored position is
\* the end; whenever it returns the stored position is one past the last
\* element delivered; when the sink refuses the last remaining element the
\* invocation returns false and the following one returns true having
\* delivered nothing.
C15_AllProtocol ==
  rgr0.kind = "all" =>
    LET d == Dst(AllLog)
    IN /\ \A i \in 1..Len(d) : d[i].c.pos = i /\ Deref(d[i].c) = rgr0.rng[i]
       /\ rgr.first = Len(d) + 1
       /\ \A i \in 1..Len(hist) : hist[i].ret <=> Accepted(hist[i].log)
       /\ (hist # <<>> /\ Last(hist).ret) => rgr.first = rgr.last
       /\ \A i \in 1..Len(hist) - 1 :
            LET e == Dst(hist[i].log)
            IN (e # <<>> /\ ~Last(e).ok /\ Last(e).c.pos = Len(rgr0.rng)) =>
                 ~hist[i].ret /\ hist[i + 1].ret /\ Dst(hist[i + 1].log) = <<>>

\* the last of several elements was refused, then all invoked again
C15_Witness ==
  /\ rgr0.kind = "all" /\ Len(rgr0.rng) >= 2
  /\ Len(hist) = 2
  /\ Len(Dst(hist[1].log)) = Len(rgr0.rng)
  /\ ~Last(Dst(hist[1].log)).ok
  /\ hist[2].ret


\* --------------------------------------------------------------- take
\* the quota with which the last invocation of a take at the top of the
\* pipeline was entered: every delivery so far took one from it
EntryQuota == rgr0.n - (Len(Dst(AllLog)) - Len(Dst(Last(hist).log)))

\* the wrapped ranger of a take whose quota is not used up returned true:
\* the sink refused nothing and the source reached its end
WrappedDone == Accepted(Last(hist).log) /\ SourceOf(rgr).first = SourceOf(rgr).last

\* C16: take(n, R) entered with a quota that is not zero returns true
\* exactly when R returned true or the quota is zero when R returns: true
\* when the sink refuses the element that uses up the quota, false when the
\* sink refuses an element while quota remains.
C16_TakeFlag ==
  (rgr0.kind = "take" /\ hist # <<>> /\ EntryQuota > 0) =>
    LET d == Dst(Last(hist).log)
        refused == d # <<>> /\ ~Last(d).ok
    IN /\ Last(hist).ret <=> (WrappedDone \/ rgr.n = 0)
       /\ (refused /\ rgr.n = 0) => Last(hist).ret
       /\ (refused /\ rgr.n > 0) => ~Last(hist).ret

\* the sink refused the element that used up the quota, with more to come
C16_Witness ==
  /\ rgr0.kind = "take" /\ hist # <<>> /\ EntryQuota > 0
  /\ ~Accepted(Last(hist).log)
  /\ rgr.n = 0
  /\ SourceOf(rgr).first < SourceOf(rgr).last
  /\ Last(hist).ret


\* ------------------------------------------------------------- filter
\* C17: filter(pred, R) hands its sink exactly the elements delivered by R
\* that satisfy pred, in R's order; an element pred rejects never stops R;
\* the flag filter returns is the one R returns.
C17_FilterForwards ==
  (rgr0.kind = "filter" /\ hist # <<>>) =>
    LET S == SourceOf(rgr0).rng
        c == Consumed(rgr)
        d == Dst(AllLog)
        hits == {i \in 1..c : Pred(rgr0.pred, S[i])}
        atEnd == SourceOf(rgr).first = SourceOf(rgr).last
    IN /\ Dereferenced(AllLog) = 1..c
       /\ {d[i].c.pos : i \in 1..Len(d)} = hits
       /\ \A a, b \in 1..Len(d) : a < b => d[a].c.pos < d[b].c.pos
       /\ (c >= 1 /\ ~Pred(rgr0.pred, S[c]) /\ ~atEnd) =>
            rgr0.rgr.kind = "take" /\ rgr.rgr.n = 0
       /\ rgr0.rgr.kind = "all" => (Last(hist).ret <=> WrappedDone)
       /\ rgr0.rgr.kind = "take" => (Last(hist).ret <=> (WrappedDone \/ rgr.rgr.n = 0))

\* filter over a source let a rejected element pass, forwarded a later one,
\* and was stopped there by the sink
C17_Witness ==
  /\ rgr0.kind = "filter" /\ rgr0.rgr.kind = "all"
  /\ hist # <<>> /\ ~Last(hist).ret
  /\ ~Pred(rgr0.pred, SourceOf(rgr0).rng[1])
  /\ Consumed(rgr) >= 2
  /\ Consumed(rgr) < Len(SourceOf(rgr0).rng)


\* ---------------------------------------------------------- transform
\* a transformed source, bare or under take or filter
Transforms ==
  LET T == {Transform("succ", a) : a \in Sources}
  IN T \cup {Take(n, t) : n \in 0..MaxSrc, t \in T} \cup {Filter("odd", t) : t \in T}

\* rgr(dst) at top level with a sink that dereferences the cursors it is
\* handed (look) or only counts them
CallLook(refuse, look) ==
  /\ Len(hist) < MaxCalls
  /\ LET res == Invoke(rgr, CtxOf(refuse, look, 0, 0))
     IN /\ rgr' = res.r
        /\ hist' = Append(hist, [log |-> res.ctx.log, ret |-> res.ret, exc |-> FALSE,
                                 look |-> look])
  /\ UNCHANGED rgr0

NextLook == \E refuse \in SUBSET (1..MaxRefuse), look \in BOOLEAN : CallLook(refuse, look)

SpecTransform == InitIn(Transforms) /\ [][NextLook]_vars

\* how many times f was applied
Applications(log) == Cardinality({i \in 1..Len(log) : log[i].t = "apply"})

\* how many cursors the sink dereferenced over the invocations of h
RECURSIVE Looked(_)
Looked(h) ==
  IF h = <<>> THEN 0
  ELSE (IF Head(h).look THEN Len(Dst(Head(h).log)) ELSE 0) + Looked(Tail(h))

\* C18: transform(f, R) applies f only when one of its cursors is
\* dereferenced, once per dereference: never on delivery, so never at all
\* when nothing downstream dereferences; what a dereference yields is f of
\* the element; transform returns the flag R returns.
C18_TransformLazy ==
  hist # <<>> =>
    LET L == AllLog
        d == Dst(L)
        S == SourceOf(rgr0).rng
    IN /\ \A i \in 1..Len(L) :
            /\ L[i].t = "apply" => i > 1 /\ L[i - 1].t = "deref" /\ L[i - 1].c = L[i].c
            /\ (L[i].t = "deref" /\ L[i].c.fs # <<>>) =>
                 /\ i < Len(L) /\ L[i + 1].t = "apply"
                 /\ i + 1 < Len(L) => L[i + 2].t # "apply"
       /\ Applications(L) =
            Looked(hist) + (IF rgr0.kind = "filter" THEN Consumed(rgr) ELSE 0)
       /\ \A i \in 1..Len(d) : Deref(d[i].c) = S[d[i].c.pos] + 1
       /\ rgr0.kind = "transform" => (Last(hist).ret <=> WrappedDone)

\* take over transform handed several cursors to a sink that dereferenced
\* none of them
C18_Witness ==
  /\ rgr0.kind = "take" /\ Len(hist) = 1
  /\ ~hist[1].look
  /\ Len(Dst(hist[1].log)) >= 2
  /\ Applications(hist[1].log) = 0


\* ------------------------------------------------------------- unique
Uniques == {p \in Pipelines : p.kind = "unique"}
SpecUnique == InitIn(Uniques) /\ [][Next]_vars

\* where in a log the priming sink of unique was handed a cursor
Primed(log) == {i \in 1..Len(log) : log[i].t = "prime"}

\* C19: in the first invocation of unique(R) the priming sink receives one
\* cursor from R, or none if R is empty, and hands it to the sink once; the
\* invocation returns false if the sink refuses that element and true if R
\* is empty; priming never happens in a later invocation.
C19_PrimingOnce ==
  (rgr0.kind = "unique" /\ hist # <<>>) =>
    LET L == hist[1].log
        d == Dst(L)
        empty == Eager(rgr0.rgr) = <<>>
    IN /\ Cardinality(Primed(L)) <= 1
       /\ Primed(L) = {} <=> empty
       /\ \A i \in Primed(L) :
            /\ i < Len(L) /\ IsDst(L[i + 1]) /\ L[i + 1].c = L[i].c
            /\ Cardinality({j \in 1..Len(d) : d[j].c = L[i].c}) = 1
       /\ (d # <<>> /\ ~d[1].ok) => ~hist[1].ret
       /\ empty => hist[1].ret /\ d = <<>>
       /\ \A n \in 2..Len(hist) : Primed(hist[n].log) = {}


\* ------------------------------------------------ the pending slot of join
\* join at the top: over two containers, or over a stored take or source
\* followed by a stored source
Pendings ==
  {RangerJoin(All(<<1>>, <<S, T>>)) : S \in Seqs, T \in Seqs}
    \cup {Join(All(<<1>>, <<a, All(<<3>>, T)>>)) : a \in Stage(<<2>>), T \in Seqs}

\* rgr(dst) at top level, once more than elsewhere: one invocation to set
\* the slot, one to complete the pending sub-ranger, one to come back to it
CallJoin(refuse) ==
  /\ Len(hist) < MaxCalls + 1
  /\ LET res == Invoke(rgr, Ctx0(refuse))
     IN /\ rgr' = res.r
        /\ hist' = Append(hist, [log |-> res.ctx.log, ret |-> res.ret, exc |-> FALSE])
  /\ UNCHANGED rgr0

NextPending == \E refuse \in SUBSET (1..MaxRefuse) : CallJoin(refuse)

SpecPending == InitIn(Pendings) /\ [][NextPending]_vars

Emplaced(log) == {i \in 1..Len(log) : log[i].t = "emplace"}

\* C20: the pending slot of join is never emptied once set; every
\* invocation after it was set invokes the pending sub-ranger first; once
\* that sub-ranger has completed, invoking it again delivers nothing and
\* returns true; the slot is only overwritten by a later sub-ranger that
\* the sink stopped.
C20_PendingKept ==
  LET L == AllLog
  IN /\ Emplaced(L) # {} <=> rgr.osrgr # NoRanger
     /\ \A n \in 2..Len(hist) :
          Emplaced(Logs(SubSeq(hist, 1, n - 1))) # {} =>
            hist[n].log # <<>> /\ hist[n].log[1].t = "pcall"
     /\ \A a, b \in 1..Len(L) :
          (/\ a < b /\ L[a].t = "pret" /\ L[a].ok /\ L[b].t = "pcall"
           /\ \A x \in a..b : L[x].t # "emplace") =>
            b < Len(L) /\ L[b + 1].t = "pret" /\ L[b + 1].ok
     /\ \A i \in Emplaced(L) :
          /\ \E j \in 1..(i - 1) :
               /\ IsDst(L[j]) /\ ~L[j].ok
               /\ \A x \in (j + 1)..i : ~IsDst(L[x])
          /\ \A j \in Emplaced(L) : j < i => L[j].c.pos < L[i].c.pos

\* the slot was set, its sub-ranger completed in the next invocation, and
\* the invocation after that came back to it
C20_Witness ==
  /\ Len(hist) = 3
  /\ Emplaced(hist[1].log) # {}
  /\ hist[2].ret /\ Dst(hist[2].log) # <<>>
  /\ hist[3].log = <<[t |-> "pcall", c |-> NoCursor, ok |-> TRUE, i |-> 0],
                     [t |-> "pret", c |-> NoCursor, ok |-> TRUE, i |-> 0]>>

====
